---------------------------- MODULE Spec2Model ----------------------------
(***************************************************************************)
(* Job XML Converter (src/app.py): a Flask application with two routes,    *)
(* /convert-url and /convert-file, that both hand a byte buffer to         *)
(* process_gz_content, which gunzips it, decodes it as UTF-8, parses it as *)
(* XML, turns every <job> element found by root.findall('.//job') into a   *)
(* dict, writes the dicts as a table to the fixed file 'jobs_output.xlsx'  *)
(* and returns the file name and the number of dicts.  The route then      *)
(* serves that file under the download name 'jobs.xlsx'.                   *)
(*                                                                         *)
(* Data representation                                                     *)
(*   text        None (<<>>) or <<s>> for the string s                     *)
(*   element     [depth, tag, text]; a parsed document is the sequence of  *)
(*               its elements in document order (preorder), the root first *)
(*               at depth 0, as xml.etree.ElementTree holds it: text is    *)
(*               Element.text                                              *)
(*   dict        a sequence of <<key, value>> pairs with distinct keys, in *)
(*               insertion order (a Python dict)                           *)
(*   bytes       a sequence of segments of decompressed content            *)
(*   buffer      a sequence of chunks of a gzip file                       *)
(***************************************************************************)
EXTENDS Naturals, Sequences, FiniteSets

\* ------------------------------------------------------------- bounds ----
\* Largest number of elements of a generated XML document.
MaxNodes == 5
\* Largest number of chunks of a generated raw (possibly damaged) buffer.
MaxChunks == 3

\* -------------------------------------------------------------- values ---
\* Python's None: Element.text of an element without text.
None == <<>>
\* The text s.
Str(s) == <<s>>
\* pandas' missing value, filled in where a dict lacks a column.
NaN == <<"nan", "float">>
\* An empty spreadsheet cell.
Blank == <<>>

\* The tag that root.findall('.//job') selects.
JobTag == "job"

\* ------------------------------------------------- sequence helpers ------
RECURSIVE SelectIdx(_, _, _)
\* The indices i in lo..hi with P[i], ascending; P is a function to BOOLEAN.
SelectIdx(P, lo, hi) ==
  IF lo > hi THEN <<>>
  ELSE (IF P[lo] THEN <<lo>> ELSE <<>>) \o SelectIdx(P, lo + 1, hi)

\* Index of the first pair of dict d whose key is k, 0 when d has no key k.
KeyIndex(d, k) ==
  IF \E i \in 1..Len(d) : d[i][1] = k
  THEN CHOOSE i \in 1..Len(d) : d[i][1] = k /\ \A j \in 1..(i - 1) : d[j][1] # k
  ELSE 0

HasKey(d, k) == KeyIndex(d, k) # 0

\* d[k] for a key that d has.
Lookup(d, k) == d[KeyIndex(d, k)][2]

\* The keys of d, in insertion order.
Keys(d) == [i \in 1..Len(d) |-> d[i][1]]

\* DictSet, were the first value of a repeated key kept (setdefault).
DictSetKeepFirst(d, k, v) ==
  IF HasKey(d, k) THEN d ELSE Append(d, <<k, v>>)

\* d[k] = v on a Python dict: an existing key keeps its place and takes the
\* new value, a new key goes to the end.
DictSet(d, k, v) ==
  IF HasKey(d, k)
  THEN [i \in 1..Len(d) |-> IF i = KeyIndex(d, k) THEN <<k, v>> ELSE d[i]]
  ELSE Append(d, <<k, v>>)

\* ----------------------------------------------------- parsed document ---
\* The last element of the subtree of element i of document doc.
SubtreeEnd(doc, i) ==
  IF \E j \in (i + 1)..Len(doc) : doc[j].depth <= doc[i].depth
  THEN (CHOOSE j \in (i + 1)..Len(doc) :
          /\ doc[j].depth <= doc[i].depth
          /\ \A k \in (i + 1)..(j - 1) : doc[k].depth > doc[i].depth) - 1
  ELSE Len(doc)

\* Children, were the comprehension to walk job.iter() instead of job: every
\* element below i.
ChildrenDeep(doc, i) ==
  SelectIdx([j \in 1..Len(doc) |-> TRUE], i + 1, SubtreeEnd(doc, i))

\* list(elem): the direct children of element i, in document order.
Children(doc, i) ==
  SelectIdx([j \in 1..Len(doc) |-> doc[j].depth = doc[i].depth + 1],
            i + 1, SubtreeEnd(doc, i))

\* Element.iter(tag) from element i: i itself and everything below it, in
\* document order, keeping the elements whose tag is tag.
Iter(doc, i, tag) ==
  SelectIdx([j \in 1..Len(doc) |-> doc[j].tag = tag], i, SubtreeEnd(doc, i))

\* findall, were the path './/*': every element below the root.
findall_any(doc, tag) ==
  SelectIdx([j \in 1..Len(doc) |-> TRUE], 2, Len(doc))

\* root.findall('.//' + tag): ElementPath's descendant step yields every e
\* of root.iter(tag) with "e is not root".
findall(doc, tag) == SelectSeq(Iter(doc, 1, tag), LAMBDA e : e # 1)

RECURSIVE DictComp(_, _, _, _)
\* {child.tag: child.text for child in job}, from the k-th child on, added
\* to the dict acc.
DictComp(doc, kids, k, acc) ==
  IF k > Len(kids) THEN acc
  ELSE DictComp(doc, kids, k + 1,
                DictSet(acc, doc[kids[k]].tag, doc[kids[k]].text))

\* job_data of the job element at index job.
job_data(doc, job) == DictComp(doc, Children(doc, job), 1, <<>>)

\* jobs after the loop over root.findall('.//job').
jobs_of(doc) ==
  LET found == findall(doc, JobTag)
  IN  [n \in 1..Len(found) |-> job_data(doc, found[n])]

\* ------------------------------------------------------------ the table ---
RECURSIVE AddKeys(_, _, _)
\* cols followed by the keys of ks (from the k-th on) that cols lacks.
AddKeys(cols, ks, k) ==
  IF k > Len(ks) THEN cols
  ELSE AddKeys(IF \E c \in 1..Len(cols) : cols[c] = ks[k]
               THEN cols ELSE Append(cols, ks[k]),
               ks, k + 1)

\* ColumnsFrom, were the columns taken from the first dict alone.
ColumnsFirstOnly(jobs, n, cols) ==
  IF Len(jobs) = 0 THEN cols ELSE AddKeys(cols, Keys(jobs[1]), 1)

RECURSIVE ColumnsFrom(_, _, _)
\* The columns pandas gives a frame built from a list of dicts: the keys of
\* the dicts, each once, in the order met (no sorting for dict input).
ColumnsFrom(jobs, n, cols) ==
  IF n > Len(jobs) THEN cols
  ELSE ColumnsFrom(jobs, n + 1, AddKeys(cols, Keys(jobs[n]), 1))

\* pd.DataFrame(jobs): one row per dict, NaN where the dict lacks the column.
DataFrame(jobs) ==
  LET cols == ColumnsFrom(jobs, 1, <<>>)
  IN  [columns |-> cols,
       data    |-> [n \in 1..Len(jobs) |->
                      [c \in 1..Len(cols) |->
                         IF HasKey(jobs[n], cols[c])
                         THEN Lookup(jobs[n], cols[c]) ELSE NaN]]]

\* A cell as to_excel writes it: None and NaN as the empty cell (na_rep=''),
\* a string as it is.
ExcelCell(v) == IF v = None \/ v = NaN THEN Blank ELSE v

\* What df.to_excel(path, index=index) saves: the header row of column
\* names, then one row per frame row; with index, a leading column holding
\* the row labels 0, 1, ... under an empty heading.
to_excel(df, index) ==
  [kind   |-> "sheet",
   header |-> (IF index THEN <<"">> ELSE <<>>) \o df.columns,
   rows   |-> [n \in 1..Len(df.data) |->
                (IF index THEN << <<"label", n - 1>> >> ELSE <<>>) \o
                [c \in 1..Len(df.columns) |-> ExcelCell(df.data[n][c])]]]

\* df.to_excel(output_file, index=False)  # No row indices
Sheet(df) == to_excel(df, FALSE)

\* No frame yet (df before line 239).
NoFrame == [columns |-> <<>>, data |-> <<>>]

\* Contents of the path 'jobs_output.xlsx' other than a saved sheet: the
\* file does not exist; it was opened for writing and is empty or written
\* in part; two writers' bytes are mixed in it.
NoFile    == [kind |-> "absent",    header |-> <<>>, rows |-> <<>>]
Truncated == [kind |-> "truncated", header |-> <<>>, rows |-> <<>>]
Garbled   == [kind |-> "garbled",   header |-> <<>>, rows |-> <<>>]

\* ------------------------------------------------- bytes and buffers ------
\* A segment of decompressed bytes: nothing; bytes that are not UTF-8 (such
\* as 0xFF, which no continuation makes valid); UTF-8 text that is not XML
\* and that no continuation makes XML (such as "<<"); the text of one
\* well-formed document.
NoDoc        == <<>>
EmptySeg     == [kind |-> "empty",     doc |-> NoDoc]
BadUtf8Seg   == [kind |-> "badutf8",   doc |-> NoDoc]
MalformedSeg == [kind |-> "malformed", doc |-> NoDoc]
XmlSeg(d)    == [kind |-> "xml",       doc |-> d]

\* A chunk of a buffer: a complete gzip member (header, deflate stream of
\* the payload, matching CRC32 and size); a member whose trailer does not
\* match; a member cut short before its end-of-stream marker (the buffer
\* ends there); a run of zero bytes; bytes that do not start with the gzip
\* magic number.
Member(seg) == [kind |-> "member", payload |-> seg]
BadCrc(seg) == [kind |-> "badcrc", payload |-> seg]
Cut         == [kind |-> "cut",    payload |-> EmptySeg]
Zeros       == [kind |-> "zeros",  payload |-> EmptySeg]
Junk        == [kind |-> "junk",   payload |-> EmptySeg]
\* A member whose deflate stream is damaged.
Corrupt     == [kind |-> "corrupt", payload |-> EmptySeg]

RECURSIVE GzipRead(_, _, _)
\* gzip.GzipFile.read() of buffer buf from chunk i on, data being what the
\* members before i gave (gzip._GzipReader): at the end of the buffer the
\* read ends; bytes that are not the magic number raise BadGzipFile; a
\* member is decompressed and its trailer checked (BadGzipFile on a
\* mismatch, EOFError when the buffer ends inside the member, zlib.error on
\* a damaged deflate stream); zero bytes after a member are skipped.
GzipRead(buf, i, data) ==
  IF i > Len(buf) THEN [error |-> "none", data |-> data]
  ELSE CASE buf[i].kind = "member" ->
              GzipRead(buf, i + 1, Append(data, buf[i].payload))
         [] buf[i].kind = "badcrc" -> [error |-> "BadGzipFile", data |-> <<>>]
         [] buf[i].kind = "cut"    -> [error |-> "EOFError",    data |-> <<>>]
         [] buf[i].kind = "corrupt" -> [error |-> "zlib.error", data |-> <<>>]
         [] buf[i].kind = "zeros"  ->
              IF i > 1 THEN GzipRead(buf, i + 1, data)
              ELSE [error |-> "BadGzipFile", data |-> <<>>]
         [] OTHER                  -> [error |-> "BadGzipFile", data |-> <<>>]

\* The errors of the decompression stage.
DecompressionErrors == {"BadGzipFile", "EOFError", "zlib.error"}

\* The text wrapper's decoding of the whole decompressed data as UTF-8
\* (strict): the text, its empty segments gone, or UnicodeDecodeError.
Utf8Decode(data) ==
  IF \E k \in 1..Len(data) : data[k].kind = "badutf8"
  THEN [error |-> "UnicodeDecodeError", text |-> <<>>]
  ELSE [error |-> "none",
        text  |-> SelectSeq(data, LAMBDA seg : seg.kind # "empty")]

\* ET.fromstring(xml_content): the document when the text is exactly one
\* well-formed document; ParseError for no element at all, for text that is
\* not XML and for anything after the document element.
fromstring(text) ==
  IF Len(text) = 1 /\ text[1].kind = "xml"
  THEN [error |-> "none", root |-> text[1].doc]
  ELSE [error |-> "ParseError", root |-> NoDoc]

\* ------------------------------------------------- process_gz_content -----
\* Lines 227-239 of process_gz_content, and the count line 243 returns: the
\* first stage that fails raises, otherwise jobs and df are built.
process_gz_content(gz_data) ==
  LET gz    == GzipRead(gz_data, 1, <<>>)
      dec   == Utf8Decode(gz.data)
      par   == fromstring(dec.text)
      jobs  == jobs_of(par.root)
      raise(e) == [error |-> e, jobs |-> <<>>, df |-> NoFrame, count |-> 0]
  IN  IF gz.error # "none" THEN raise(gz.error)
      ELSE IF dec.error # "none" THEN raise(dec.error)
      ELSE IF par.error # "none" THEN raise(par.error)
      ELSE [error |-> "none", jobs |-> jobs, df |-> DataFrame(jobs),
            count |-> Len(jobs)]

\* raise_for_status, were only the server errors raised.
raise_for_5xx(status) == 500 <= status /\ status < 600

\* response.raise_for_status(): HTTPError for a 4xx or a 5xx status.
raise_for_status(status) == 400 <= status /\ status < 600

\* ------------------------------------------------------------- inputs -----
El(d, t, x) == [depth |-> d, tag |-> t, text |-> x]

\* Tag and text of the elements of the generated documents.
NodeKinds ==
  {<<JobTag, None>>, <<"a", Str("x")>>, <<"a", Str("y")>>, <<"b", None>>}

\* The depth sequences of the ordered trees of n elements in preorder.
Shapes(n) ==
  {d \in [1..n -> 0..(n - 1)] :
     /\ d[1] = 0
     /\ \A i \in 2..n : d[i] >= 1 /\ d[i] <= d[i - 1] + 1}

\* The document of shape d whose i-th element has tag and text k[i].
MkDoc(d, k) == [i \in 1..Len(d) |-> El(d[i], k[i][1], k[i][2])]

\* doc gzipped: one complete member holding its UTF-8 encoded text.
Gz(doc) == <<Member(XmlSeg(doc))>>

\* <source><job><title>x</title></job></source>
DocA == <<El(0, "source", None), El(1, JobTag, None), El(2, "title", Str("x"))>>
\* <source><job><title>y</title></job><job><salary>7</salary></job></source>
DocB == <<El(0, "source", None), El(1, JobTag, None), El(2, "title", Str("y")),
          El(1, JobTag, None), El(2, "salary", Str("7"))>>
\* <source/>
DocNoJobs == <<El(0, "source", None)>>

\* The chunks of the generated raw buffers.
RawChunks ==
  {Member(EmptySeg), Member(BadUtf8Seg), Member(MalformedSeg),
   Member(XmlSeg(DocA)), BadCrc(XmlSeg(DocA)), Cut, Zeros, Junk, Corrupt}

\* Every buffer of up to MaxChunks chunks; a cut member ends its buffer.
RawInputs ==
  {buf \in UNION {[1..n -> RawChunks] : n \in 0..MaxChunks} :
     \A i \in 1..Len(buf) : buf[i].kind = "cut" => i = Len(buf)}

\* The uploads and response bodies of the request-level specifications: an
\* empty buffer, a buffer that is not gzip, gzipped bytes that are not
\* UTF-8, gzipped text that is not XML, and three gzipped documents.
SmallInputs ==
  {<<>>, <<Junk>>, <<Member(BadUtf8Seg)>>, <<Member(MalformedSeg)>>,
   Gz(DocA), Gz(DocB), Gz(DocNoJobs)}

\* The HTTP status codes a fetched response carries in the model.
Statuses == {200, 204, 304, 404, 500}

\* -------------------------------------------------------------- state -----
\* file    what the path 'jobs_output.xlsx' holds
\* req     per request thread: where it is in its route handler (pc), its
\*         locals (gz_data, jobs, df, job_count), the status and content of
\*         the fetched response, the exception that ended it (error), what
\*         the client
\*         was sent (served, download_name), and how many times it
\*         called requests.get (fetches) and process_gz_content (calls)
\* okLog   the gz_data of the calls of process_gz_content that returned, the
\*         latest first, the two latest kept (history)
VARIABLES file, req, okLog

vars == <<file, req, okLog>>

Threads == {"A", "B"}

NoData    == <<>>
NotServed == [kind |-> "nothing", header |-> <<>>, rows |-> <<>>]

Idle ==
  [pc |-> "idle", route |-> "none", status |-> 0, gz_data |-> NoData,
   jobs |-> <<>>, df |-> NoFrame, job_count |-> 0, error |-> "none",
   content |-> NoData, served |-> NotServed, download_name |-> "",
   fetches |-> 0, calls |-> 0]

Init ==
  /\ file = NoFile
  /\ req = [t \in Threads |-> Idle]
  /\ okLog = <<>>

\* convert_file, lines 299-302: the upload, whose bytes are data, is read
\* into gz_data.
convert_file(t, data) ==
  /\ req[t].pc = "idle"
  /\ req' = [req EXCEPT ![t].pc = "process", ![t].route = "file",
                        ![t].gz_data = data]
  /\ UNCHANGED <<file, okLog>>

\* convert_url, line 270: the url is taken from the form.
convert_url(t) ==
  /\ req[t].pc = "idle"
  /\ req' = [req EXCEPT ![t].pc = "fetch", ![t].route = "url"]
  /\ UNCHANGED <<file, okLog>>

\* convert_url, lines 273-274: requests.get either raises (no response) or
\* returns a response with a status and a body; raise_for_status raises
\* HTTPError on the status, and otherwise the body becomes the gz_data of
\* line 277.
Fetch(t, Inputs) ==
  /\ req[t].pc = "fetch"
  /\ \E ok \in BOOLEAN, status \in Statuses, body \in Inputs :
       LET tried == [req EXCEPT ![t].fetches = @ + 1]
           got   == [tried EXCEPT ![t].status = status, ![t].content = body]
       IN
       req' = IF ~ok
              THEN [tried EXCEPT ![t].pc = "failed",
                                 ![t].error = "ConnectionError"]
              ELSE IF raise_for_status(status)
              THEN [got EXCEPT ![t].pc = "failed", ![t].error = "HTTPError"]
              ELSE [got EXCEPT ![t].pc = "process", ![t].gz_data = body]
  /\ UNCHANGED <<file, okLog>>

\* Extract, were the output file opened before the input is read.
ExtractOpensFirst(t) ==
  /\ req[t].pc = "process"
  /\ LET out == process_gz_content(req[t].gz_data)
         called == [req EXCEPT ![t].calls = @ + 1] IN
     req' = IF out.error # "none"
            THEN [called EXCEPT ![t].pc = "failed", ![t].error = out.error]
            ELSE [called EXCEPT ![t].pc = "to_excel", ![t].jobs = out.jobs,
                                ![t].df = out.df]
  /\ file' = Truncated
  /\ UNCHANGED okLog

\* process_gz_content, lines 227-239, called at line 277 or 305: an
\* exception ends the request, otherwise jobs and df are ready for line 241.
Extract(t) ==
  /\ req[t].pc = "process"
  /\ LET out == process_gz_content(req[t].gz_data)
         called == [req EXCEPT ![t].calls = @ + 1] IN
     req' = IF out.error # "none"
            THEN [called EXCEPT ![t].pc = "failed", ![t].error = out.error]
            ELSE [called EXCEPT ![t].pc = "to_excel", ![t].jobs = out.jobs,
                                ![t].df = out.df]
  /\ UNCHANGED <<file, okLog>>

\* ToExcelOpen, were the file opened without being emptied (mode 'r+'): a
\* shorter workbook then leaves the tail of the longer one behind it.
ToExcelOpenKeep(t) ==
  /\ req[t].pc = "to_excel"
  /\ req' = [req EXCEPT ![t].pc = "save"]
  /\ UNCHANGED <<file, okLog>>

\* Line 241, first half: to_excel opens 'jobs_output.xlsx' for writing,
\* which empties it.
ToExcelOpen(t) ==
  /\ req[t].pc = "to_excel"
  /\ file' = Truncated
  /\ req' = [req EXCEPT ![t].pc = "save"]
  /\ UNCHANGED okLog

\* Lines 241-243, second half: the workbook is saved through the handle
\* opened before and process_gz_content returns (output_file, len(jobs)).
\* When another thread wrote the path since this one opened it, the bytes
\* of the two writers may end up mixed.
ToExcelSave(t) ==
  /\ req[t].pc = "save"
  /\ file' \in (IF file = Truncated THEN {Sheet(req[t].df)}
                ELSE {Sheet(req[t].df), Garbled})
  /\ req' = [req EXCEPT ![t].pc = "send", ![t].job_count = Len(req[t].jobs)]
  /\ okLog' = IF okLog = <<>> THEN <<req[t].gz_data>>
               ELSE <<req[t].gz_data, okLog[1]>>

\* Lines 280-283 and 308-311: send_file(output_file, as_attachment=True,
\* download_name='jobs.xlsx') sends what the path holds.
SendFile(t) ==
  /\ req[t].pc = "send"
  /\ req' = [req EXCEPT ![t].pc = "done", ![t].served = file,
                        ![t].download_name = "jobs.xlsx"]
  /\ UNCHANGED <<file, okLog>>

\* The response (or the error) has gone out; the thread takes the next
\* request.
Finish(t) ==
  /\ req[t].pc \in {"done", "failed"}
  /\ req' = [req EXCEPT ![t] = Idle]
  /\ UNCHANGED <<file, okLog>>

\* One upload converted: the upload is any gzipped well-formed document of
\* up to MaxNodes elements over NodeKinds, or any raw buffer.
NextExtract ==
  \/ /\ req["A"].pc = "idle"
     /\ \E n \in 1..MaxNodes : \E d \in Shapes(n), k \in [1..n -> NodeKinds] :
          convert_file("A", Gz(MkDoc(d, k)))
  \/ /\ req["A"].pc = "idle"
     /\ \E buf \in RawInputs : convert_file("A", buf)
  \/ Extract("A")
  \/ ToExcelOpen("A")
  \/ ToExcelSave("A")
  \/ SendFile("A")

SpecExtract == Init /\ [][NextExtract]_vars

\* The steps of thread t of the server.
Step(t) ==
  \/ \E data \in SmallInputs : convert_file(t, data)
  \/ convert_url(t)
  \/ Fetch(t, SmallInputs)
  \/ Extract(t)
  \/ ToExcelOpen(t)
  \/ ToExcelSave(t)
  \/ SendFile(t)
  \/ Finish(t)

\* Requests one after the other: a single thread serves them all.
NextSequential == Step("A")

SpecSequential == Init /\ [][NextSequential]_vars

\* Requests dispatched concurrently to the threads of the one process.
Next == \E t \in Threads : Step(t)

Spec == Init /\ [][Next]_vars

\* ------------------------------------------------------------- claims -----
\* The definitions below state what is claimed of the program.  They speak
\* of the input and of the tree directly (parent and depth), not through
\* the operators above that model the code.

\* The buffer holds exactly one document: complete members only (zero
\* bytes may follow a member), all of them empty but one, whose content is
\* the text of a well-formed document.
WellFormedInput(gz) ==
  /\ Len(gz) >= 1
  /\ gz[1].kind = "member"
  /\ \A i \in 1..Len(gz) :
       \/ gz[i].kind = "zeros"
       \/ gz[i].kind = "member" /\ gz[i].payload.kind \in {"xml", "empty"}
  /\ Cardinality({i \in 1..Len(gz) :
                    gz[i].kind = "member" /\ gz[i].payload.kind = "xml"}) = 1

\* The document of a well-formed input.
TheDoc(gz) ==
  gz[CHOOSE i \in 1..Len(gz) :
       gz[i].kind = "member" /\ gz[i].payload.kind = "xml"].payload.doc

\* The buffer is a gzip stream: one or more complete members, zero bytes
\* allowed after a member.
ValidGzip(gz) ==
  /\ Len(gz) >= 1
  /\ gz[1].kind = "member"
  /\ \A i \in 1..Len(gz) : gz[i].kind \in {"member", "zeros"}

\* The decompressed bytes of a gzip stream are UTF-8.
ValidUtf8(gz) ==
  \A i \in 1..Len(gz) : gz[i].kind = "member" => gz[i].payload.kind # "badutf8"

\* Element c is a direct child of element j.
IsChild(doc, c, j) ==
  /\ j < c
  /\ doc[c].depth = doc[j].depth + 1
  /\ \A k \in (j + 1)..c : doc[k].depth > doc[j].depth

\* Element e lies below element j, at any depth.
IsBelow(doc, e, j) ==
  j < e /\ \A k \in (j + 1)..e : doc[k].depth > doc[j].depth

\* The elements of doc tagged job: all of them, and those below the root.
JobElements(doc) == {i \in 1..Len(doc) : doc[i].tag = JobTag}
JobsBelowRoot(doc) == JobElements(doc) \ {1}

\* The n-th element of the set S of elements, in document order.
Nth(S, n) == CHOOSE e \in S : Cardinality({x \in S : x < e}) = n - 1

Max(S) == CHOOSE x \in S : \A y \in S : y <= x
Min(S) == CHOOSE x \in S : \A y \in S : x <= y

\* The request of the single-conversion specification, and whether its call
\* of process_gz_content got past parsing / has returned.
R == req["A"]
Built    == R.pc \in {"to_excel", "save", "send", "done"}
Returned == R.pc \in {"send", "done"}

\* C1: for a document with exactly N elements tagged job, counted over the
\* whole tree (the root and jobs nested in jobs included),
\* process_gz_content builds N records, the i-th from the i-th job element
\* in document order, writes a table of N rows and returns N.
C1_EveryJobElementCounted ==
  (Returned /\ WellFormedInput(R.gz_data)) =>
     LET doc == TheDoc(R.gz_data)
         J   == JobElements(doc)
         N   == Cardinality(J)
     IN  /\ Len(R.jobs) = N
         /\ \A i \in 1..N : R.jobs[i] = job_data(doc, Nth(J, i))
         /\ file.kind = "sheet" /\ Len(file.rows) = N
         /\ R.job_count = N

\* C3: the table's columns are the union of the keys of all records, each
\* once, ordered by first appearance over the record sequence (and within a
\* record by the record's own key order); there is one row per record; the
\* cell of record r under column c holds r's value for c (None shown as the
\* empty cell) and is empty when r lacks c; there is no index column.
C3_ColumnUnion ==
  Returned =>
    LET recs == R.jobs
        hdr  == file.header
        FirstRec(c) == Min({n \in 1..Len(recs) : HasKey(recs[n], c)})
    IN  /\ file.kind = "sheet"
        /\ \A c, d \in 1..Len(hdr) : hdr[c] = hdr[d] => c = d
        /\ {hdr[c] : c \in 1..Len(hdr)} =
             UNION {{recs[n][i][1] : i \in 1..Len(recs[n])} : n \in 1..Len(recs)}
        /\ \A c, d \in 1..Len(hdr) :
             c < d =>
               \/ FirstRec(hdr[c]) < FirstRec(hdr[d])
               \/ /\ FirstRec(hdr[c]) = FirstRec(hdr[d])
                  /\ KeyIndex(recs[FirstRec(hdr[c])], hdr[c])
                       < KeyIndex(recs[FirstRec(hdr[c])], hdr[d])
        /\ Len(file.rows) = Len(recs)
        /\ \A n \in 1..Len(recs) :
             /\ Len(file.rows[n]) = Len(hdr)
             /\ \A c \in 1..Len(hdr) :
                  file.rows[n][c] =
                    IF HasKey(recs[n], hdr[c]) /\ Lookup(recs[n], hdr[c]) # None
                    THEN Lookup(recs[n], hdr[c]) ELSE Blank

\* C3's case: two records with different key sets, the later record's key
\* sorting before the earlier one's, written out.
C3_Witness ==
  /\ R.pc = "done"
  /\ Len(R.jobs) = 2
  /\ Keys(R.jobs[1]) = <<"b">> /\ Keys(R.jobs[2]) = <<"a">>
  /\ file.header = <<"b", "a">>
  /\ file.rows[1][2] = Blank /\ file.rows[2][2] # Blank

\* C5: the record of a job element has exactly one key per distinct tag
\* among the element's direct children; its value for a tag is the text of
\* the last direct child so tagged; its keys stand in the order of the
\* tags' first occurrences.
C5_LastWriteWins ==
  (Built /\ WellFormedInput(R.gz_data)) =>
    LET doc == TheDoc(R.gz_data) IN
    \A n \in 1..Len(R.jobs) :
      LET j    == Nth(JobsBelowRoot(doc), n)
          rec  == R.jobs[n]
          kids == {c \in 1..Len(doc) : IsChild(doc, c, j)}
          tags == {doc[c].tag : c \in kids}
          Tagged(t) == {c \in kids : doc[c].tag = t}
      IN  /\ Len(rec) = Cardinality(tags)
          /\ {rec[i][1] : i \in 1..Len(rec)} = tags
          /\ \A i \in 1..Len(rec) :
               rec[i][2] = doc[Max(Tagged(rec[i][1]))].text
          /\ \A i, k \in 1..Len(rec) :
               i < k => Min(Tagged(rec[i][1])) < Min(Tagged(rec[k][1]))

\* C5's case: a job whose children are a (text x), b, a (text y): one key
\* a, first, with the second a's text.
C5_Witness ==
  /\ R.pc = "done"
  /\ WellFormedInput(R.gz_data)
  /\ \E n \in 1..Len(R.jobs) :
       LET doc == TheDoc(R.gz_data)
           j   == Nth(JobsBelowRoot(doc), n)
       IN  /\ Cardinality({c \in 1..Len(doc) : IsChild(doc, c, j)}) = 3
           /\ doc[j + 1].text = Str("x") /\ doc[j + 2].tag = "b"
           /\ R.jobs[n] = << <<"a", Str("y")>>, <<"b", None>> >>

\* C6: the keys of a job element's record are tags of its direct children
\* only, so that a tag found only deeper below the element is no key, and
\* every value is the text of a direct child with that tag, unchanged, None
\* when that child has no text.
C6_DirectChildrenOnly ==
  (Built /\ WellFormedInput(R.gz_data)) =>
    LET doc == TheDoc(R.gz_data) IN
    \A n \in 1..Len(R.jobs) :
      LET j    == Nth(JobsBelowRoot(doc), n)
          rec  == R.jobs[n]
          kids == {c \in 1..Len(doc) : IsChild(doc, c, j)}
      IN  /\ \A i \in 1..Len(rec) :
               \E c \in kids : doc[c].tag = rec[i][1] /\ doc[c].text = rec[i][2]
          /\ \A e \in 1..Len(doc) :
               (IsBelow(doc, e, j) /\ \A c \in kids : doc[c].tag # doc[e].tag)
                 => ~HasKey(rec, doc[e].tag)

\* C6's case: a job whose only child b has no text and holds a sub-element
\* a with text: the record is {b: None}.
C6_Witness ==
  /\ R.pc = "done"
  /\ WellFormedInput(R.gz_data)
  /\ \E n \in 1..Len(R.jobs) :
       LET doc == TheDoc(R.gz_data)
           j   == Nth(JobsBelowRoot(doc), n)
       IN  /\ R.jobs[n] = << <<"b", None>> >>
           /\ \E e \in 1..Len(doc) :
                /\ IsBelow(doc, e, j) /\ ~IsChild(doc, e, j)
                /\ doc[e].tag = "a" /\ doc[e].text = Str("x")

\* C7: a well-formed document without any job element converts without an
\* error: no records, a table without rows, a returned count of 0.
C7_ZeroJobsIsNoError ==
  (WellFormedInput(R.gz_data) /\ JobElements(TheDoc(R.gz_data)) = {}) =>
     /\ R.pc # "failed" /\ R.error = "none"
     /\ Built => R.jobs = <<>>
     /\ Returned => /\ file.kind = "sheet" /\ file.rows = <<>>
                    /\ R.job_count = 0

\* C7's case: a document of several elements, none a job, served.
C7_Witness ==
  /\ R.pc = "done"
  /\ WellFormedInput(R.gz_data)
  /\ Len(TheDoc(R.gz_data)) >= 3
  /\ JobElements(TheDoc(R.gz_data)) = {}
  /\ R.served.kind = "sheet" /\ R.served.rows = <<>>

\* C4: the failure kind tells the first failing stage: a buffer that is no
\* gzip stream fails with a decompression error; a gzip stream whose bytes
\* are not UTF-8 with an encoding error; a gzip stream of UTF-8 text that
\* is not one well-formed document with a parse error.
C4_FailureKindByStage ==
  R.pc \notin {"idle", "process"} =>
    /\ ~ValidGzip(R.gz_data) =>
         R.pc = "failed" /\ R.error \in DecompressionErrors
    /\ (ValidGzip(R.gz_data) /\ ~ValidUtf8(R.gz_data)) =>
         R.pc = "failed" /\ R.error = "UnicodeDecodeError"
    /\ (ValidGzip(R.gz_data) /\ ValidUtf8(R.gz_data)
          /\ ~WellFormedInput(R.gz_data)) =>
         R.pc = "failed" /\ R.error = "ParseError"

\* The tables of the three documents of SmallInputs, written out by hand.
SheetA == [kind |-> "sheet", header |-> <<"title">>,
           rows |-> << <<Str("x")>> >>]
SheetB == [kind |-> "sheet", header |-> <<"title", "salary">>,
           rows |-> << <<Str("y"), Blank>>, <<Blank, Str("7")>> >>]
SheetNoJobs == [kind |-> "sheet", header |-> <<>>, rows |-> <<>>]

\* The table of a buffer of SmallInputs that converts.
ExpectedSheet(gz) ==
  IF gz = Gz(DocA) THEN SheetA
  ELSE IF gz = Gz(DocB) THEN SheetB
  ELSE SheetNoJobs

\* The buffers of SmallInputs that convert.
Convertible == {Gz(DocA), Gz(DocB), Gz(DocNoJobs)}

\* What 'jobs_output.xlsx' holds after the conversions logged in okLog.
LastWritten == IF okLog = <<>> THEN NoFile ELSE ExpectedSheet(okLog[1])

\* C2: two simultaneous conversions never cross-contaminate: whatever the
\* interleaving, the document served to a caller is the table of that
\* caller's own input.
C2_NoCrossContamination ==
  \A t \in Threads :
    req[t].pc = "done" => req[t].served = ExpectedSheet(req[t].gz_data)

\* C8 as claimed: in convert_url every response whose status is not 2xx
\* ends the request with a fetch error, process_gz_content is not called
\* and nothing is served; only the body of a 2xx response is processed.
C8_Non2xxIsFetchError ==
  (R.route = "url" /\ R.status # 0) =>
     /\ ~(200 <= R.status /\ R.status < 300) =>
          /\ R.pc = "failed" /\ R.error = "HTTPError"
          /\ R.calls = 0 /\ R.served = NotServed
     /\ R.calls > 0 => (200 <= R.status /\ R.status < 300)

\* C8 as amended: every response whose status is 4xx or 5xx ends the
\* request with HTTPError, which is none of the decompression, encoding and
\* parse errors; process_gz_content is then never called and nothing is
\* served; the body of a response with any other status is what
\* process_gz_content is called with.
C8_4xx5xxIsFetchError ==
  (R.route = "url" /\ R.status # 0) =>
     /\ (400 <= R.status /\ R.status < 600) =>
          /\ R.pc = "failed" /\ R.error = "HTTPError"
          /\ R.error \notin DecompressionErrors \cup
                            {"UnicodeDecodeError", "ParseError"}
          /\ R.calls = 0 /\ R.served = NotServed /\ R.gz_data = NoData
     /\ ~(400 <= R.status /\ R.status < 600) =>
          /\ R.gz_data = R.content
          /\ R.pc # "process" => R.calls = 1
          /\ R.error # "HTTPError"

\* C8's case: a 404 response has ended the request with HTTPError.
C8_Witness ==
  /\ R.route = "url" /\ R.status = 404
  /\ R.pc = "failed" /\ R.error = "HTTPError" /\ R.calls = 0

\* C9: a conversion that fails at the fetch, decompression, decoding or
\* parsing stage ends with that error after a single attempt, serves
\* nothing and leaves 'jobs_output.xlsx' as the last successful conversion
\* wrote it (absent if none did).
C9_FailureLeavesFile ==
  R.pc = "failed" =>
    /\ R.error \in {"ConnectionError", "HTTPError", "UnicodeDecodeError",
                    "ParseError"} \cup DecompressionErrors
    /\ R.fetches <= 1 /\ R.calls <= 1
    /\ R.served = NotServed /\ R.download_name = ""
    /\ file = LastWritten

\* C9's case: an empty upload fails after an earlier conversion wrote its
\* table.
C9_Witness ==
  /\ R.pc = "failed" /\ R.error = "ParseError" /\ R.gz_data = <<>>
  /\ okLog # <<>> /\ file = SheetB

\* C10: with requests served one after the other, the file holds exactly
\* the table of the latest successful conversion whenever no write is under
\* way, nothing of an earlier table remaining, and a successful request is
\* served the table of its own input under the name jobs.xlsx.
C10_LastConversionWins ==
  /\ R.pc # "save" => file = LastWritten
  /\ R.pc = "done" =>
       /\ R.gz_data \in Convertible /\ okLog[1] = R.gz_data
       /\ R.served = ExpectedSheet(R.gz_data)
       /\ R.download_name = "jobs.xlsx"

\* C10's case: the one-row table of DocA has replaced the wider, two-row
\* table of DocB and is what the request was served.
C10_Witness ==
  /\ R.pc = "done" /\ R.gz_data = Gz(DocA)
  /\ Len(okLog) = 2 /\ okLog[2] = Gz(DocB)
  /\ file = SheetA /\ R.served = SheetA
=============================================================================
